---- MODULE Spec2Model ----
(***************************************************************************)
(* Model of angular-docs-sitemap/generate-sitemap.js.                      *)
(*                                                                         *)
(* The script is one Node.js program.  Its top level (lines 1-45) runs to  *)
(* completion on the main thread: it creates the generator, registers the  *)
(* four listeners, calls generator.start(), and then immediately reads,    *)
(* parses and converts sitemap.xml.  Crawl events are callbacks of the     *)
(* event loop: they can only be delivered once the top level has returned, *)
(* and never if the top level ended with an uncaught exception (the        *)
(* process then exits).                                                    *)
(*                                                                         *)
(* File contents are sequences: sitemap.xml is a sequence of XML tokens,   *)
(* angular-docs-urls.txt is a sequence of characters.                      *)
(***************************************************************************)
EXTENDS Integers, Sequences, FiniteSets, TLC

VARIABLES
    pc,          \* position of the process: a top-level statement, "loop", "crashed", "exited"
    sitemapFile, \* content of sitemap.xml on disk, or Absent
    outFile,     \* content of angular-docs-urls.txt on disk, or Absent
    outAtStart,  \* content of angular-docs-urls.txt when the process started
    listeners,   \* event names passed to generator.on, in registration order
    crawl,       \* crawler: "idle", "crawling", "done"
    emitted,     \* events the crawler has emitted in this process, in order
    console,     \* lines printed by this process, in order
    sitemap,     \* const sitemap (line 32), or NotRead
    xmlDoc,      \* const xmlDoc (line 34): elements in document order, or NoDoc
    urls,        \* const urls (line 38)
    err,         \* uncaught exception that ended the top level, or "none"
    run,         \* number of times the script has been started
    history      \* one record per executed line 44: what was read, what was written

vars == <<pc, sitemapFile, outFile, outAtStart, listeners, crawl, emitted,
          console, sitemap, xmlDoc, urls, err, run, history>>

----------------------------------------------------------------------------
(* Bounds *)

MaxUrls == 2      \* url entries in an initial sitemap.xml
MaxEvents == 2    \* add / ignore / error events per crawl
MaxRuns == 2      \* times the script is started

----------------------------------------------------------------------------
(* Values *)

\* A file on disk: missing, or present with its content.
Absent == [exists |-> FALSE, data |-> <<>>]
File(data) == [exists |-> TRUE, data |-> data]

\* const sitemap before and after line 32; const xmlDoc before and after line 34.
NotRead == [read |-> FALSE, text |-> <<>>]
ReadText(data) == [read |-> TRUE, text |-> data]
NoDoc == [parsed |-> FALSE, nodes |-> <<>>]
Document(nodes) == [parsed |-> TRUE, nodes |-> nodes]
NL == "\n"

\* URL strings, as character sequences; one is a prefix of the other.
UrlPool == {<<"a">>, <<"a", "b">>}

\* URLs the crawl discovers but excludes, and URLs whose fetch fails.
IgnoredUrls == {<<"b">>}
FailedUrls == {<<"a", "b">>}
ErrorCodes == {404}

RECURSIVE SeqsUpTo(_, _)
SeqsUpTo(S, n) ==
    IF n = 0 THEN {<<>>}
    ELSE LET shorter == SeqsUpTo(S, n - 1)
         IN shorter \cup {Append(s, x) : s \in {t \in shorter : Len(t) = n - 1}, x \in S}

UrlLists == SeqsUpTo(UrlPool, MaxUrls)

----------------------------------------------------------------------------
(* The sitemap format: <urlset> (<url><loc>URL</loc></url>)* </urlset>     *)

Open(name) == [t |-> "open", name |-> name]
Close(name) == [t |-> "close", name |-> name]
Text(s) == [t |-> "text", s |-> s]

UrlEntry(u) == <<Open("url"), Open("loc"), Text(u), Close("loc"), Close("url")>>

RECURSIVE Entries(_)
Entries(us) == IF us = <<>> THEN <<>> ELSE UrlEntry(Head(us)) \o Entries(Tail(us))

\* The document the crawler leaves behind for the URLs it added.
Serialize(us) == <<Open("urlset")>> \o Entries(us) \o <<Close("urlset")>>

\* A document cut short: its last tags are never closed.
Truncations(doc) == {SubSeq(doc, 1, k) : k \in 1..(Len(doc) - 1)}

----------------------------------------------------------------------------
(* xmldom's DOMParser (line 29), as far as the script depends on it.       *)
(* A document is the sequence of its elements in document order; an        *)
(* element is its tag name and its text.  In the documents considered here *)
(* only leaf elements hold text, so an element's own text is its           *)
(* textContent.                                                            *)

ParseStart == [nodes |-> <<>>, stack |-> <<>>, ok |-> TRUE]

\* One SAX step: an open tag creates an element, text goes to the innermost
\* open element, a close tag must match the innermost open element.
ParseToken(st, tok) ==
    LET depth == Len(st.stack)
        rootClosed == depth = 0 /\ st.nodes # <<>>
    IN  CASE tok.t = "open" ->
               [nodes |-> Append(st.nodes, [tag |-> tok.name, text |-> <<>>]),
                stack |-> Append(st.stack, Len(st.nodes) + 1),
                ok |-> st.ok /\ ~rootClosed]
          [] tok.t = "text" ->
               IF depth = 0 THEN [st EXCEPT !.ok = FALSE]
               ELSE [st EXCEPT !.nodes[st.stack[depth]].text = @ \o tok.s]
          [] tok.t = "close" ->
               IF depth > 0 /\ st.nodes[st.stack[depth]].tag = tok.name
               THEN [st EXCEPT !.stack = SubSeq(@, 1, depth - 1)]
               ELSE [st EXCEPT !.ok = FALSE]

RECURSIVE ParseFrom(_, _, _)
ParseFrom(tokens, i, st) ==
    IF i > Len(tokens) THEN st ELSE ParseFrom(tokens, i + 1, ParseToken(st, tokens[i]))

\* Well-formed XML: one root element, every tag closed in order.
WellFormed(tokens) ==
    LET st == ParseFrom(tokens, 1, ParseStart)
    IN  st.ok /\ st.stack = <<>> /\ st.nodes # <<>>

\* parser.parseFromString(sitemap, 'text/xml') with the default error handler
\* (line 33 passes no options).  On well-formed input it returns the document.
\* On malformed input the outcome is the library's: depending on the release
\* and on the kind of malformation it throws, or it reports through its own
\* handler (or not at all) and returns the elements built so far.
parseFromString(tokens) ==
    LET st == ParseFrom(tokens, 1, ParseStart)
    IN  IF WellFormed(tokens)
        THEN {[threw |-> FALSE, doc |-> Document(st.nodes), logged |-> FALSE]}
        ELSE {[threw |-> TRUE, doc |-> NoDoc, logged |-> FALSE]}
             \cup {[threw |-> FALSE, doc |-> Document(st.nodes), logged |-> b] : b \in BOOLEAN}

getElementsByTagName(doc, name) == SelectSeq(doc.nodes, LAMBDA n : n.tag = name)

textContent(node) == node.text

----------------------------------------------------------------------------
(* Lines 36-44: the extraction loop and the join                           *)

\* for (let i = 0; i < urlNodes.length; i++) urls.push(urlNodes[i].textContent)
\* (indices are 1-based here).
\* Variant: the loop bound is off by one and the last node is never pushed.
RECURSIVE ExtractLoop_DropsLast(_, _, _)
ExtractLoop_DropsLast(urlNodes, i, acc) ==
    IF i < Len(urlNodes)
    THEN ExtractLoop_DropsLast(urlNodes, i + 1, Append(acc, textContent(urlNodes[i])))
    ELSE acc

RECURSIVE ExtractLoop(_, _, _)
ExtractLoop(urlNodes, i, acc) ==
    IF i <= Len(urlNodes)
    THEN ExtractLoop(urlNodes, i + 1, Append(acc, textContent(urlNodes[i])))
    ELSE acc

\* urls.join(sep) on strings: the elements with sep between neighbours.
RECURSIVE Join(_, _)
Join(strs, sep) ==
    IF strs = <<>> THEN <<>>
    ELSE IF Len(strs) = 1 THEN strs[1]
    ELSE strs[1] \o <<sep>> \o Join(Tail(strs), sep)

----------------------------------------------------------------------------
(* Console lines                                                           *)

AddedLine(url) == [fmt |-> "Added", url |-> url]
IgnoredLine(url) == [fmt |-> "Ignored", url |-> url]
ErrorLine(error) == [fmt |-> "Error", url |-> error.url, code |-> error.code]
CompletedLine == [fmt |-> "Completed"]
ExtractedLine(n) == [fmt |-> "Extracted", n |-> n]
UncaughtLine(e) == [fmt |-> "Uncaught", error |-> e]
ParserLine == [fmt |-> "xmldom"]

----------------------------------------------------------------------------
(* Initial state: the working directory holds whatever an earlier crawl or *)
(* an earlier run left there.                                              *)

InitSitemaps ==
    {Absent} \cup {File(Serialize(us)) : us \in UrlLists}
             \cup {File(d) : d \in UNION {Truncations(Serialize(us)) : us \in UrlLists}}

InitOutputs == {Absent} \cup {File(Join(us, NL)) : us \in SeqsUpTo(UrlPool, 1)}

Init ==
    /\ pc = "on_add"
    /\ sitemapFile \in InitSitemaps
    /\ outFile \in InitOutputs
    /\ outAtStart = outFile
    /\ listeners = <<>>
    /\ crawl = "idle"
    /\ emitted = <<>>
    /\ console = <<>>
    /\ sitemap = NotRead
    /\ xmlDoc = NoDoc
    /\ urls = <<>>
    /\ err = "none"
    /\ run = 1
    /\ history = <<>>

----------------------------------------------------------------------------
(* Top level, lines 8-27: listeners and start                              *)

\* generator.on(name, listener): EventEmitter appends the listener.
On(ls, name) == Append(ls, name)

Register(at, name, next) ==
    /\ pc = at
    /\ listeners' = On(listeners, name)
    /\ pc' = next
    /\ UNCHANGED <<sitemapFile, outFile, outAtStart, crawl, emitted, console,
                   sitemap, xmlDoc, urls, err, run, history>>

RegisterAdd == Register("on_add", "add", "on_ignore")
\* Variant: the second listener is registered under 'add' again.
RegisterIgnore_AsAdd == Register("on_ignore", "add", "on_error")

RegisterIgnore == Register("on_ignore", "ignore", "on_error")
RegisterError == Register("on_error", "error", "on_done")
RegisterDone == Register("on_done", "done", "start")

\* generator.start() returns at once; the crawl proceeds on the event loop.
Start ==
    /\ pc = "start"
    /\ crawl' = "crawling"
    /\ pc' = "read"
    /\ UNCHANGED <<sitemapFile, outFile, outAtStart, listeners, emitted, console,
                   sitemap, xmlDoc, urls, err, run, history>>

----------------------------------------------------------------------------
(* Top level, lines 28-45: read, parse, extract, write, report             *)

\* An exception nothing catches: Node prints it and the process exits, the
\* crawler with it.
Throw(e) ==
    /\ pc' = "crashed"
    /\ err' = e
    /\ console' = Append(console, UncaughtLine(e))
    /\ crawl' = "killed"

\* Variant: a missing file reads as an empty string instead of throwing.
ReadSitemap_NoThrow ==
    /\ pc = "read"
    /\ sitemap' = ReadText(sitemapFile.data)
    /\ pc' = "parse"
    /\ UNCHANGED <<err, console, crawl, sitemapFile, outFile, outAtStart, listeners,
                   emitted, xmlDoc, urls, run, history>>

ReadSitemap ==
    /\ pc = "read"
    /\ IF ~sitemapFile.exists
       THEN /\ Throw("ENOENT")
            /\ UNCHANGED sitemap
       ELSE /\ sitemap' = ReadText(sitemapFile.data)
            /\ pc' = "parse"
            /\ UNCHANGED <<err, console, crawl>>
    /\ UNCHANGED <<sitemapFile, outFile, outAtStart, listeners, emitted,
                   xmlDoc, urls, run, history>>

ParseSitemap ==
    /\ pc = "parse"
    /\ \E r \in parseFromString(sitemap.text) :
          IF r.threw
          THEN /\ Throw("ParseError")
               /\ UNCHANGED xmlDoc
          ELSE /\ xmlDoc' = r.doc
               /\ console' = IF r.logged THEN Append(console, ParserLine) ELSE console
               /\ pc' = "extract"
               /\ UNCHANGED <<err, crawl>>
    /\ UNCHANGED <<sitemapFile, outFile, outAtStart, listeners, emitted,
                   sitemap, urls, run, history>>

ExtractUrls ==
    /\ pc = "extract"
    /\ urls' = ExtractLoop(getElementsByTagName(xmlDoc, "loc"), 1, <<>>)
    /\ pc' = "write"
    /\ UNCHANGED <<sitemapFile, outFile, outAtStart, listeners, crawl, emitted,
                   console, sitemap, xmlDoc, err, run, history>>

\* Variant: nothing is written when there is nothing to write.
writeFileSync_SkipEmpty(old, data) == IF data = <<>> THEN old ELSE File(data)

\* Variant: the data is appended to what the file holds.
writeFileSync_Append(old, data) == File(old.data \o data)

\* fs.writeFileSync(path, data): the file is created or replaced by data.
writeFileSync(old, data) == File(data)

WriteUrls ==
    /\ pc = "write"
    /\ outFile' = writeFileSync(outFile, Join(urls, NL))
    /\ history' = Append(history, [read |-> sitemap.text, wrote |-> outFile'.data])
    /\ pc' = "report"
    /\ UNCHANGED <<sitemapFile, outAtStart, listeners, crawl, emitted, console,
                   sitemap, xmlDoc, urls, err, run>>

ReportCount ==
    /\ pc = "report"
    /\ console' = Append(console, ExtractedLine(Len(urls)))
    /\ pc' = "loop"
    /\ UNCHANGED <<sitemapFile, outFile, outAtStart, listeners, crawl, emitted,
                   sitemap, xmlDoc, urls, err, run, history>>

----------------------------------------------------------------------------
(* The event loop: the crawler emits, the listeners of lines 10-24 print   *)

AddEv(url) == [kind |-> "add", url |-> url]
IgnoreEv(url) == [kind |-> "ignore", url |-> url]
ErrorEv(url, code) == [kind |-> "error", error |-> [url |-> url, code |-> code]]
DoneEv == [kind |-> "done"]

\* The body of the listener registered under name, applied to the event.
Listener(name, ev) ==
    CASE name = "add" -> AddedLine(ev.url)
      [] name = "ignore" -> IgnoredLine(ev.url)
      [] name = "error" -> ErrorLine(ev.error)
      [] name = "done" -> CompletedLine

\* emitter.emit(ev): every listener registered under the event's name is
\* called, in registration order; the result is what they print.
RECURSIVE Emit(_, _)
Emit(ls, ev) ==
    IF ls = <<>> THEN <<>>
    ELSE (IF Head(ls) = ev.kind THEN <<Listener(Head(ls), ev)>> ELSE <<>>)
         \o Emit(Tail(ls), ev)

Progress(es) == SelectSeq(es, LAMBDA e : e.kind # "done")

RECURSIVE AddedUrls(_)
AddedUrls(es) ==
    IF es = <<>> THEN <<>>
    ELSE (IF Head(es).kind = "add" THEN <<Head(es).url>> ELSE <<>>) \o AddedUrls(Tail(es))

\* Callbacks run only after the top level has returned, while the crawl lasts.
Crawling == pc = "loop" /\ crawl = "crawling"

Deliver(ev) ==
    /\ emitted' = Append(emitted, ev)
    /\ console' = console \o Emit(listeners, ev)

AddEvent(url) ==
    /\ Crawling
    /\ Len(Progress(emitted)) < MaxEvents
    /\ Deliver(AddEv(url))
    /\ UNCHANGED <<pc, sitemapFile, outFile, outAtStart, listeners, crawl,
                   sitemap, xmlDoc, urls, err, run, history>>

IgnoreEvent(url) ==
    /\ Crawling
    /\ Len(Progress(emitted)) < MaxEvents
    /\ Deliver(IgnoreEv(url))
    /\ UNCHANGED <<pc, sitemapFile, outFile, outAtStart, listeners, crawl,
                   sitemap, xmlDoc, urls, err, run, history>>

\* Variant: the error listener rethrows, which ends the process.
ErrorEvent_Fatal(url, code) ==
    /\ Crawling
    /\ Len(Progress(emitted)) < MaxEvents
    /\ emitted' = Append(emitted, ErrorEv(url, code))
    /\ Throw("CrawlFetchError")
    /\ UNCHANGED <<sitemapFile, outFile, outAtStart, listeners,
                   sitemap, xmlDoc, urls, run, history>>

ErrorEvent(url, code) ==
    /\ Crawling
    /\ Len(Progress(emitted)) < MaxEvents
    /\ Deliver(ErrorEv(url, code))
    /\ UNCHANGED <<pc, sitemapFile, outFile, outAtStart, listeners, crawl,
                   sitemap, xmlDoc, urls, err, run, history>>

\* The crawl completes: the generator puts the sitemap of the added URLs in
\* place (with nothing added it may leave the file alone), then emits done.
DoneEvent ==
    /\ Crawling
    /\ LET added == AddedUrls(emitted)
       IN  \/ sitemapFile' = File(Serialize(added))
           \/ added = <<>> /\ sitemapFile' = sitemapFile
    /\ crawl' = "done"
    /\ Deliver(DoneEv)
    /\ UNCHANGED <<pc, outFile, outAtStart, listeners,
                   sitemap, xmlDoc, urls, err, run, history>>

----------------------------------------------------------------------------
(* The script is started again in the same directory, once the previous    *)
(* process has ended.                                                      *)

Ended == pc = "crashed" \/ (pc = "loop" /\ crawl = "done")

Rerun ==
    /\ Ended
    /\ run < MaxRuns
    /\ run' = run + 1
    /\ pc' = "on_add"
    /\ outAtStart' = outFile
    /\ listeners' = <<>>
    /\ crawl' = "idle"
    /\ emitted' = <<>>
    /\ console' = <<>>
    /\ sitemap' = NotRead
    /\ xmlDoc' = NoDoc
    /\ urls' = <<>>
    /\ err' = "none"
    /\ UNCHANGED <<sitemapFile, outFile, history>>

----------------------------------------------------------------------------

Next ==
    \/ RegisterAdd
    \/ RegisterIgnore
    \/ RegisterError
    \/ RegisterDone
    \/ Start
    \/ ReadSitemap
    \/ ParseSitemap
    \/ ExtractUrls
    \/ WriteUrls
    \/ ReportCount
    \/ \E u \in UrlPool : AddEvent(u)
    \/ \E u \in IgnoredUrls : IgnoreEvent(u)
    \/ \E u \in FailedUrls, c \in ErrorCodes : ErrorEvent(u, c)
    \/ DoneEvent
    \/ Rerun

Spec == Init /\ [][Next]_vars

----------------------------------------------------------------------------
(* Vocabulary of the properties                                            *)

Range(f) == {f[i] : i \in DOMAIN f}

\* The text tokens of a token sequence, in order.
RECURSIVE TextsOf(_)
TextsOf(tokens) ==
    IF tokens = <<>> THEN <<>>
    ELSE (IF Head(tokens).t = "text" THEN <<Head(tokens).s>> ELSE <<>>) \o TextsOf(Tail(tokens))

CountOpen(tokens, name) == Len(SelectSeq(tokens, LAMBDA k : k = Open(name)))

\* A sitemap document: urlset of url entries, each with one loc holding text.
IsSitemapDocument(tokens) == tokens = Serialize(TextsOf(tokens))

\* The lines of a text: the maximal runs between newline characters.
RECURSIVE SplitLines(_, _)
SplitLines(chars, cur) ==
    IF chars = <<>> THEN <<cur>>
    ELSE IF Head(chars) = NL THEN <<cur>> \o SplitLines(Tail(chars), <<>>)
    ELSE SplitLines(Tail(chars), Append(cur, Head(chars)))

Summaries == SelectSeq(console, LAMBDA l : l.fmt = "Extracted")

CrawlLines ==
    SelectSeq(console, LAMBDA l : l.fmt \in {"Added", "Ignored", "Error", "Completed"})

\* The line the console interface documents for an event.
LineFor(ev) ==
    CASE ev.kind = "add" -> [fmt |-> "Added", url |-> ev.url]
      [] ev.kind = "ignore" -> [fmt |-> "Ignored", url |-> ev.url]
      [] ev.kind = "error" -> [fmt |-> "Error", url |-> ev.error.url, code |-> ev.error.code]
      [] ev.kind = "done" -> [fmt |-> "Completed"]

BeforeRead == pc \in {"on_add", "on_ignore", "on_error", "on_done", "start", "read"}
AfterParse == pc \in {"extract", "write", "report", "loop"} \/ (pc = "crashed" /\ sitemap.read)
Written == pc \in {"report", "loop"}

----------------------------------------------------------------------------
(* Properties                                                              *)

\* C1: the Extractor reads sitemap.xml only after the crawl started by
\* generator.start() has emitted done.
C1_ReadOnlyAfterDone == sitemap.read => crawl = "done"

\* C2: for a well-formed sitemap document with N url elements, after the
\* Extractor has run the output file holds exactly N lines (is empty when
\* N = 0), the i-th line being the text of the i-th loc in document order,
\* duplicates kept, and the reported count is N.
C2_OutputLinesAreLocTexts ==
    (pc = "loop" /\ IsSitemapDocument(sitemap.text)) =>
        LET locs == TextsOf(sitemap.text)
            N == CountOpen(sitemap.text, "url")
        IN  /\ outFile.exists
            /\ IF N = 0 THEN outFile.data = <<>>
               ELSE SplitLines(outFile.data, <<>>) = locs /\ Len(locs) = N
            /\ Summaries = <<ExtractedLine(N)>>

C2_Witness ==
    /\ pc = "loop"
    /\ sitemap.text = Serialize(<<<<"a", "b">>, <<"a", "b">>>>)
    /\ outFile.data = <<"a", "b", NL, "a", "b">>
    /\ outAtStart.data = <<"a">>

\* C3: when sitemap.xml is not well-formed XML the Extractor fails with a
\* ParseError before any write, and the output file keeps what it held.
C3_MalformedFailsBeforeWrite ==
    (AfterParse /\ ~WellFormed(sitemap.text)) =>
        (pc = "crashed" /\ err = "ParseError" /\ outFile = outAtStart)

\* C4: when sitemap.xml does not exist the Extractor fails with a
\* NotFoundError (ENOENT) at the read, and the output file is neither created
\* nor modified: parse, write and report are never executed.
C4_MissingInputFailsAtRead ==
    (~BeforeRead /\ ~sitemapFile.exists) =>
        /\ pc = "crashed"
        /\ err = "ENOENT"
        /\ outFile = outAtStart
        /\ ~sitemap.read
        /\ ~xmlDoc.parsed
        /\ urls = <<>>
        /\ Summaries = <<>>

C4_Witness ==
    /\ pc = "crashed"
    /\ err = "ENOENT"
    /\ ~sitemapFile.exists
    /\ outFile = File(<<"a", "b">>)
    /\ run = 1

\* C5: an error event is not fatal: handling it prints one Error line with
\* the URL and code and changes nothing else, and the crawl can go on to
\* further events and to done.
C5_ErrorEventNotFatal ==
    [][ (Len(emitted') = Len(emitted) + 1 /\ emitted'[Len(emitted')].kind = "error") =>
            /\ console' = Append(console, LineFor(emitted'[Len(emitted')]))
            /\ UNCHANGED <<pc, sitemapFile, outFile, outAtStart, listeners, crawl,
                           sitemap, xmlDoc, urls, err, run, history>>
            /\ crawl' = "crawling"
            /\ pc' = "loop" ]_vars

C5_Witness ==
    /\ Len(emitted) = 3
    /\ emitted[1].kind = "error"
    /\ emitted[2].kind = "add"
    /\ emitted[3].kind = "done"
    /\ crawl = "done"

\* C6: a failure of the Extractor (ParseError, NotFoundError) aborts only the
\* Extractor: the crawl goes on, its events are delivered and it reaches done.
C6_ExtractorFailureLeavesCrawl ==
    (err # "none") => (crawl = "done" \/ ENABLED DoneEvent)

\* C7: when the document has no loc element the Extractor still writes the
\* output file, as the empty string, reports a count of 0 and raises no error.
C7_ZeroLocWritesEmpty ==
    (AfterParse /\ xmlDoc.parsed /\ CountOpen(sitemap.text, "loc") = 0) =>
        /\ err = "none"
        /\ Written => outFile = File(<<>>)
        /\ pc = "loop" => Summaries = <<ExtractedLine(0)>>

C7_Witness ==
    /\ pc = "loop"
    /\ sitemap.text = Serialize(<<>>)
    /\ outAtStart = Absent
    /\ outFile = File(<<>>)

\* C8: the Extractor is idempotent and overwrites: two runs that read the same
\* sitemap content leave byte-identical output files, whatever the output
\* file held before each of them.
C8_SameSitemapSameOutput ==
    /\ \A i, j \in DOMAIN history :
          history[i].read = history[j].read => history[i].wrote = history[j].wrote
    /\ Written => (history # <<>> /\ outFile = File(history[Len(history)].wrote))

C8_Witness ==
    /\ Len(history) = 2
    /\ history[1].read = history[2].read
    /\ history[1].wrote = <<"a", NL, "a", "b">>
    /\ Written

\* C9: no error is swallowed: every crawl error event, malformed sitemap and
\* missing sitemap is followed by a console message for it, and the summary
\* line is never printed in a run whose input was missing or malformed.
C9_NoErrorSwallowed ==
    /\ \A i \in DOMAIN emitted :
          emitted[i].kind = "error" => LineFor(emitted[i]) \in Range(console)
    /\ err # "none" => UncaughtLine(err) \in Range(console)
    /\ (AfterParse /\ ~WellFormed(sitemap.text)) =>
          \E l \in Range(console) : l.fmt \in {"Uncaught", "xmldom"}
    /\ Summaries # <<>> => (sitemap.read /\ WellFormed(sitemap.text))

\* C10: each of the four listeners is registered exactly once, before
\* generator.start(); so every event emitted is logged exactly once, in the
\* format of its kind and in arrival order, and the completion line is
\* printed once per done event.
C10_EveryEventLoggedOnce ==
    /\ crawl # "idle" =>
          \A k \in {"add", "ignore", "error", "done"} :
              Len(SelectSeq(listeners, LAMBDA l : l = k)) = 1
    /\ CrawlLines = [i \in DOMAIN emitted |-> LineFor(emitted[i])]

C10_Witness ==
    /\ Len(emitted) = 3
    /\ emitted[1].kind = "ignore"
    /\ emitted[2].kind = "add"
    /\ emitted[3].kind = "done"
    /\ Len(console) = 4

====
